---- MODULE Spec2Model ----
(***************************************************************************)
(* A model of the two job-harvesting programs of the repository:           *)
(*   "simple" : src/index.js          (fetchLinkedInJobs, GET /jobs)        *)
(*   "batch"  : src/unnamed/part_000  (Query.getJobs, enriched parser)      *)
(* Each file is a program of its own (each ends in app.listen), so a       *)
(* behaviour is a run of one of them: Init chooses `pipeline`.             *)
(***************************************************************************)
EXTENDS Integers, Sequences, FiniteSets, TLC

(* ------------------------------ bounds -------------------------------- *)
\* clock advances in one behaviour
MaxTicks == 2
\* direct cache operations in one behaviour of SpecCache
MaxOps == 4
\* page fetches issued by the one request of a behaviour of SpecCrawl
MaxFetches == 5
\* page fetches issued in one behaviour of Spec, over all its requests
MaxServeFetches == 3
\* requests served in one behaviour of Spec
MaxRequests == 2
\* job records on one listing page (the job board sends up to 25)
MaxPageLen == 2
\* largest limit a query asks for
MaxLimit == 2
\* <li> elements on the listing page given to parseJobList in SpecParse
MaxItems == 2
\* filters given in one search specification of SpecUrl
MaxFilters == 2
\* page fetches issued in one behaviour of SpecConcurrent, over its requests
MaxConcurrentFetches == 4
\* largest page number a query of SpecPaged asks for
MaxPage == 1
\* page fetches issued by the one request of a behaviour of SpecEnriched
MaxEnrichedFetches == 2
\* <li> elements on a listing page of SpecEnriched
MaxEnrichedItems == 2

(* ------------------------- program constants -------------------------- *)
\* JobCache.TTL of src/index.js, milliseconds
TTLSimple == 1000 * 60 * 30
\* JobCache.TTL of src/unnamed/part_000, milliseconds
TTLBatch == 1000 * 60 * 60

\* BATCH_SIZE of Query.getJobs, and the step of start in fetchLinkedInJobs
BATCH_SIZE == 25
\* MAX_CONSECUTIVE_ERRORS of Query.getJobs
MAX_CONSECUTIVE_ERRORS == 3
\* the bound of the loop of fetchLinkedInJobs: while (attempts < 5)
MAX_ATTEMPTS == 5

\* JavaScript null, and a value that is not null (a list of job records)
Null == [isNull |-> TRUE]
Val(list) == [isNull |-> FALSE, list |-> list]
Pipelines == {"simple", "batch"}
\* cache keys: `${keyword}-${location}` (simple), Query.url(0) (batch)
Keys == {"k1", "k2"}

VARIABLES
  pipeline,   \* which of the two programs is running
  now,        \* Date.now(), milliseconds
  ticks,      \* number of clock advances so far
  cache,      \* JobCache.cache: a Map key -> [data, timestamp]
  written,    \* history: for each key the arguments, time, caller (and limit) of its last set
  lastGet,    \* history: the last direct get: its key, time and returned value
  lastClear,  \* history: the last direct clear: its time and the keys it removed
  nOps,       \* number of cache operations and request starts so far
  pc,         \* per request slot: idle, delay, backoff, fetching, done
  query,      \* per request slot: the query of the request
  crawl,      \* per request slot: the local variables of the crawl loop
  log,        \* history, per request slot: the page fetches of the crawl
  req,        \* history, per request slot: when the request began
  result,     \* per request slot: what the request returned (or threw)
  nFetches,   \* page fetches issued so far
  nRequests,  \* requests begun so far
  page,       \* the listing page given to parseJobList: its <li> elements
  pstate,     \* parseJobList: idle, awaiting (Promise.all), done
  mapped,     \* per item: where its callback is, and what it returned
  detail,     \* history, per item: the answer to its description fetch
  desc,       \* history, per item: what fetchJobDescription returned
  parsed,     \* what parseJobList returned (null before it has)
  order,      \* history: the items in the order in which their description fetches settled
  built       \* SpecUrl: the query that was built and the URL it gave

crawlVars == <<pc, query, crawl, log, req, result, nFetches, nRequests>>
parseVars == <<page, pstate, mapped, detail, desc, parsed, order>>

TTL == IF pipeline = "simple" THEN TTLSimple ELSE TTLBatch

\* the amounts by which the clock is advanced: they make an elapsed time just
\* below, equal to and just above the TTL reachable
TickSteps == {1, TTL - 1}

(* ------------------------------ JobCache ------------------------------ *)
\* Map.prototype.set: the entry of the key is replaced, the others are kept
MapSet(m, key, entry) ==
  [k \in DOMAIN m \cup {key} |-> IF k = key THEN entry ELSE m[k]]

MapDelete(m, key) == [k \in DOMAIN m \ {key} |-> m[k]]

\* a variant that adds the new list to the list the entry holds
JobCacheSetMerging(c, key, value, t) ==
  MapSet(c, key, [data |-> IF key \in DOMAIN c THEN Val(c[key].data.list \o value.list) ELSE value,
                  timestamp |-> t])

\* JobCache.set of both files
JobCacheSet(c, key, value, t) == MapSet(c, key, [data |-> value, timestamp |-> t])

\* src/index.js: entry && Date.now() - entry.timestamp < this.TTL ? entry.data : null
SimpleFresh(entry, t) == t - entry.timestamp < TTLSimple

SimpleGetValue(c, key, t) ==
  IF key \in DOMAIN c /\ SimpleFresh(c[key], t) THEN c[key].data ELSE Null

\* a variant with the operands of the subtraction exchanged
BatchExpiredSwapped(item, t) == item.timestamp - t > TTLBatch

\* src/unnamed/part_000: if (Date.now() - item.timestamp > this.TTL) { delete; return null }
BatchExpired(item, t) == t - item.timestamp > TTLBatch

BatchGetValue(c, key, t) ==
  IF key \notin DOMAIN c THEN Null
  ELSE IF BatchExpired(c[key], t) THEN Null
  ELSE c[key].data

BatchGetCache(c, key, t) ==
  IF key \in DOMAIN c /\ BatchExpired(c[key], t) THEN MapDelete(c, key) ELSE c

\* a variant that sweeps an entry as soon as its age is the TTL
BatchClearAtTTL(c, t) ==
  [k \in {x \in DOMAIN c : t - c[x].timestamp < TTLBatch} |-> c[k]]

\* JobCache.clear of src/unnamed/part_000: the sweep of the expired entries
BatchClear(c, t) ==
  [k \in {x \in DOMAIN c : ~BatchExpired(c[x], t)} |-> c[k]]

\* get of the running program: the value returned and the cache it leaves
JobCacheGetValue(c, key, t) ==
  IF pipeline = "simple" THEN SimpleGetValue(c, key, t) ELSE BatchGetValue(c, key, t)

JobCacheGetCache(c, key, t) ==
  IF pipeline = "simple" THEN c ELSE BatchGetCache(c, key, t)

(* --------------------------- the clock -------------------------------- *)
Tick ==
  /\ ticks < MaxTicks
  /\ \E d \in TickSteps : now' = now + d
  /\ ticks' = ticks + 1

(* ------------- SpecCache: the cache classes driven directly ----------- *)
\* the values stored: lists of job records
CacheData == {Val(<<>>), Val(<<"j1">>), Val(<<"j1", "j2">>)}

InitEnv ==
  /\ pipeline \in Pipelines
  /\ now = 0
  /\ ticks = 0
  /\ cache = <<>>

InitCacheProbe ==
  /\ written = <<>>
  /\ lastGet = [key |-> "none", op |-> 0, at |-> 0, value |-> Null]
  /\ lastClear = [op |-> 0, at |-> 0, removed |-> {}]
  /\ nOps = 0

DoSet(key, value) ==
  /\ nOps < MaxOps
  /\ cache' = JobCacheSet(cache, key, value, now)
  /\ written' = MapSet(written, key, [data |-> value, op |-> nOps + 1, at |-> now, by |-> "direct", limit |-> 0])
  /\ nOps' = nOps + 1
  /\ UNCHANGED <<pipeline, now, ticks, lastGet, lastClear, crawlVars, parseVars, built>>

DoGet(key) ==
  /\ nOps < MaxOps
  /\ lastGet' = [key |-> key, op |-> nOps + 1, at |-> now,
                 value |-> JobCacheGetValue(cache, key, now)]
  /\ cache' = JobCacheGetCache(cache, key, now)
  /\ nOps' = nOps + 1
  /\ UNCHANGED <<pipeline, now, ticks, written, lastClear, crawlVars, parseVars, built>>

DoClear ==
  /\ pipeline = "batch"
  /\ nOps < MaxOps
  /\ cache' = BatchClear(cache, now)
  /\ lastClear' = [op |-> nOps + 1, at |-> now,
                   removed |-> DOMAIN cache \ DOMAIN BatchClear(cache, now)]
  /\ nOps' = nOps + 1
  /\ UNCHANGED <<pipeline, now, ticks, written, lastGet, crawlVars, parseVars, built>>

CacheTick == Tick /\ UNCHANGED <<pipeline, cache, written, lastGet, lastClear, nOps, crawlVars, parseVars, built>>

(* ------------------- texts and JavaScript values ---------------------- *)
\* Texts are sequences of characters. An attribute that is absent reads as
\* undefined; the literals of the code are one-element sequences.
Undefined == <<"undefined">>
NotSpecified == <<"Not specified">>
DescriptionNotAvailable == <<"Description not available">>
Empty == <<>>

IsSpace(ch) == ch = " "

Falsy(x) == x = Empty \/ x = Undefined

\* a || b
OrElse(a, b) == IF Falsy(a) THEN b ELSE a

UpperCase == <<"A", "B", "C", "D", "E", "F", "G", "H", "I", "J", "K", "L", "M",
               "N", "O", "P", "Q", "R", "S", "T", "U", "V", "W", "X", "Y", "Z">>
LowerCase == <<"a", "b", "c", "d", "e", "f", "g", "h", "i", "j", "k", "l", "m",
               "n", "o", "p", "q", "r", "s", "t", "u", "v", "w", "x", "y", "z">>

\* String.prototype.toLowerCase
ToLowerChar(ch) ==
  IF \E i \in DOMAIN UpperCase : UpperCase[i] = ch
  THEN LowerCase[CHOOSE i \in DOMAIN UpperCase : UpperCase[i] = ch]
  ELSE ch

toLowerCase(s) == [i \in 1..Len(s) |-> ToLowerChar(s[i])]

\* what an object literal inherits from Object.prototype (of its properties,
\* those the inputs of this model name), each as URLSearchParams.append
\* writes its value
ObjectPrototype ==
  (<<"c", "o", "n", "s", "t", "r", "u", "c", "t", "o", "r">> :> <<"function Object() { [native code] }">>)
    @@ (<<"v", "a", "l", "u", "e", "O", "f">> :> <<"function valueOf() { [native code] }">>)

\* table[key] for an object literal: its own property, else the inherited
\* one, else undefined
Property(table, key) ==
  IF key \in DOMAIN table THEN table[key]
  ELSE IF key \in DOMAIN ObjectPrototype THEN ObjectPrototype[key]
  ELSE Undefined

(* ==================== the crawl: requests and page fetches ============ *)
\* the request slots of the server, and those a sequential client uses
Procs == {"r1", "r2"}
Sequential == {"r1"}
Keywords == {"k1", "k2"}
Min(a, b) == IF a < b THEN a ELSE b

\* Array.prototype.slice(0, k)
Slice(s, k) == SubSeq(s, 1, Min(k, Len(s)))

\* the records of the listing page at offset `start`, when it holds n of them
PageJobs(start, n) == [i \in 1..n |-> [page |-> start, idx |-> i]]

\* what the job board may answer to the request of the page at `start`:
\* no answer (timeout or network error), HTTP 429, HTTP 500, or HTTP 200 with
\* a listing that parses to 0..MaxPageLen records
FailedResponses == {[status |-> 0], [status |-> 429], [status |-> 500]}

Responses(start) ==
  FailedResponses
    \cup {[status |-> 200, jobs |-> PageJobs(start, n)] : n \in 0..MaxPageLen}

(* --------------------- Query and the URL it builds -------------------- *)
\* the table of Query.prototype.getDateSincePosted
dateRange ==
  (<<"p", "a", "s", "t", " ", "m", "o", "n", "t", "h">> :> <<"r2592000">>)
    @@ (<<"p", "a", "s", "t", " ", "w", "e", "e", "k">> :> <<"r604800">>)
    @@ (<<"2", "4", "h", "r">> :> <<"r86400">>)

\* the table of Query.prototype.getExperienceLevel
experienceRange ==
  (<<"i", "n", "t", "e", "r", "n", "s", "h", "i", "p">> :> <<"1">>)
    @@ (<<"e", "n", "t", "r", "y", " ", "l", "e", "v", "e", "l">> :> <<"2">>)
    @@ (<<"a", "s", "s", "o", "c", "i", "a", "t", "e">> :> <<"3">>)
    @@ (<<"s", "e", "n", "i", "o", "r">> :> <<"4">>)
    @@ (<<"d", "i", "r", "e", "c", "t", "o", "r">> :> <<"5">>)
    @@ (<<"e", "x", "e", "c", "u", "t", "i", "v", "e">> :> <<"6">>)

\* the table of Query.prototype.getJobType
jobTypeRange ==
  (<<"f", "u", "l", "l", " ", "t", "i", "m", "e">> :> <<"F">>)
    @@ (<<"f", "u", "l", "l", "-", "t", "i", "m", "e">> :> <<"F">>)
    @@ (<<"p", "a", "r", "t", " ", "t", "i", "m", "e">> :> <<"P">>)
    @@ (<<"p", "a", "r", "t", "-", "t", "i", "m", "e">> :> <<"P">>)
    @@ (<<"c", "o", "n", "t", "r", "a", "c", "t">> :> <<"C">>)
    @@ (<<"t", "e", "m", "p", "o", "r", "a", "r", "y">> :> <<"T">>)
    @@ (<<"v", "o", "l", "u", "n", "t", "e", "e", "r">> :> <<"V">>)
    @@ (<<"i", "n", "t", "e", "r", "n", "s", "h", "i", "p">> :> <<"I">>)

\* the table of Query.prototype.getRemoteFilter
remoteFilterRange ==
  (<<"o", "n", "-", "s", "i", "t", "e">> :> <<"1">>)
    @@ (<<"o", "n", " ", "s", "i", "t", "e">> :> <<"1">>)
    @@ (<<"r", "e", "m", "o", "t", "e">> :> <<"2">>)
    @@ (<<"h", "y", "b", "r", "i", "d">> :> <<"3">>)

\* the table of Query.prototype.getSalary (its numeric keys are strings)
salaryRange ==
  (<<"4", "0", "0", "0", "0">> :> <<"1">>)
    @@ (<<"6", "0", "0", "0", "0">> :> <<"2">>)
    @@ (<<"8", "0", "0", "0", "0">> :> <<"3">>)
    @@ (<<"1", "0", "0", "0", "0", "0">> :> <<"4">>)
    @@ (<<"1", "2", "0", "0", "0", "0">> :> <<"5">>)

getDateSincePosted(q) == OrElse(Property(dateRange, toLowerCase(q.dateSincePosted)), Empty)

getExperienceLevel(q) == OrElse(Property(experienceRange, toLowerCase(q.experienceLevel)), Empty)

getJobType(q) == OrElse(Property(jobTypeRange, toLowerCase(q.jobType)), Empty)

getRemoteFilter(q) == OrElse(Property(remoteFilterRange, toLowerCase(q.remoteFilter)), Empty)

\* salaryRange[this.salary]: the value is not lower-cased
getSalary(q) == OrElse(Property(salaryRange, q.salary), Empty)

\* the Query constructor. keyword and location are names here (their
\* trimming is not modelled); limit and page are numbers already
Query(queryObj) ==
  [keyword |-> queryObj.keyword,
   location |-> queryObj.location,
   dateSincePosted |-> OrElse(queryObj.dateSincePosted, Empty),
   jobType |-> OrElse(queryObj.jobType, Empty),
   remoteFilter |-> OrElse(queryObj.remoteFilter, Empty),
   salary |-> OrElse(queryObj.salary, Empty),
   experienceLevel |-> OrElse(queryObj.experienceLevel, Empty),
   sortBy |-> queryObj.sortBy,
   limit |-> queryObj.limit,
   page |-> queryObj.page]

\* a variant that takes the page number for an offset
getPageUnscaled(q) == q.page

\* Query.prototype.getPage
getPage(q) == q.page * 25

\* if (value) params.append(name, value)
AppendIf(params, cond, name, value) ==
  IF cond THEN Append(params, <<name, value>>) ELSE params

\* Query.prototype.url: the parameters of the URL, in the order in which
\* they are appended (the host and the path are the same for every query)
url(q, start) ==
  LET p1 == AppendIf(<<>>, q.keyword # "", "keywords", q.keyword)
      p2 == AppendIf(p1, q.location # "", "location", q.location)
      p3 == AppendIf(p2, ~Falsy(getDateSincePosted(q)), "f_TPR", getDateSincePosted(q))
      p4 == AppendIf(p3, ~Falsy(getSalary(q)), "f_SB2", getSalary(q))
      p5 == AppendIf(p4, ~Falsy(getExperienceLevel(q)), "f_E", getExperienceLevel(q))
      p6 == AppendIf(p5, ~Falsy(getRemoteFilter(q)), "f_WT", getRemoteFilter(q))
      p7 == AppendIf(p6, ~Falsy(getJobType(q)), "f_JT", getJobType(q))
      p8 == Append(p7, <<"start", start + getPage(q)>>)
  IN IF q.sortBy = "recent" THEN Append(p8, <<"sortBy", "DD">>)
     ELSE IF q.sortBy = "relevant" THEN Append(p8, <<"sortBy", "R">>)
     ELSE p8

\* URLSearchParams: whether a URL has a parameter, and its value
HasParam(u, name) == \E i \in 1..Len(u) : u[i][1] = name

ParamValue(u, name) == u[CHOOSE i \in 1..Len(u) : u[i][1] = name][2]

\* the URL of a page in fetchLinkedInJobs of src/index.js
SimpleUrl(keyword, location, start) ==
  <<<<"keywords", keyword>>, <<"location", location>>, <<"start", start>>>>

\* a search for a keyword with no filter
PlainSearch(k, l, pg) ==
  [keyword |-> k, location |-> "",
   dateSincePosted |-> Undefined, jobType |-> Undefined, remoteFilter |-> Undefined,
   salary |-> Undefined, experienceLevel |-> Undefined,
   sortBy |-> "", limit |-> l, page |-> pg]

FilterNames == {"dateSincePosted", "jobType", "remoteFilter", "salary", "experienceLevel"}

FilterTable(f) ==
  CASE f = "dateSincePosted" -> dateRange
    [] f = "jobType" -> jobTypeRange
    [] f = "remoteFilter" -> remoteFilterRange
    [] f = "salary" -> salaryRange
    [] f = "experienceLevel" -> experienceRange

\* filter values that no table lists: "manager", and two names of
\* properties of Object.prototype
Unlisted == {<<"m", "a", "n", "a", "g", "e", "r">>, <<"c", "o", "n", "s", "t", "r", "u", "c", "t", "o", "r">>, <<"v", "a", "l", "u", "e", "O", "f">>}

\* listed synonyms written with capitals
Capitalised == {<<"P", "a", "s", "t", " ", "W", "e", "e", "k">>, <<"S", "e", "n", "i", "o", "r">>, <<"F", "u", "l", "l", "-", "T", "i", "m", "e">>, <<"R", "E", "M", "O", "T", "E">>}

\* the values given for a filter to the Query of SpecUrl
FilterValues ==
  [f \in FilterNames |->
     DOMAIN FilterTable(f) \cup Unlisted
       \cup {v \in Capitalised : f # "salary" /\ toLowerCase(v) \in DOMAIN FilterTable(f)}]

AllFilterValues == UNION {FilterValues[f] : f \in FilterNames}

\* the search specification that gives the filters of g and no other
Search(g, sortBy) ==
  LET given(f) == IF f \in DOMAIN g THEN g[f] ELSE Undefined
  IN [keyword |-> "k1", location |-> "",
      dateSincePosted |-> given("dateSincePosted"), jobType |-> given("jobType"),
      remoteFilter |-> given("remoteFilter"), salary |-> given("salary"),
      experienceLevel |-> given("experienceLevel"),
      sortBy |-> sortBy, limit |-> 0, page |-> 0]

\* the filters given in a search specification of SpecUrl: at most
\* MaxFilters of them, each with one of its values
GivenFilters(G) == {h \in [G -> AllFilterValues] : \A f \in G : h[f] \in FilterValues[f]}

NotBuilt == [kind |-> "none"]

InitNoUrl == built = NotBuilt

\* new Query(queryObj).url(start)
BuildUrl(queryObj, start) ==
  /\ built = NotBuilt
  /\ built' = [kind |-> "url", queryObj |-> queryObj, start |-> start,
               url |-> url(Query(queryObj), start)]
  /\ UNCHANGED <<pipeline, now, ticks, cache, written, lastGet, lastClear, nOps, crawlVars, parseVars>>

\* the key under which the running program caches the result of a query
CacheKey(q) == IF pipeline = "simple" THEN q.keyword ELSE url(q, 0)

\* Query.prototype.fetchJobBatch: axios.get with validateStatus status === 200,
\* then parseJobList; HTTP 429 is rethrown as "Rate limit reached"
fetchJobBatch(resp) ==
  IF resp.status = 200 THEN [kind |-> "return", jobs |-> resp.jobs]
  ELSE IF resp.status = 429 THEN [kind |-> "throw", message |-> "Rate limit reached"]
  ELSE [kind |-> "throw", message |-> "request failed"]

\* a variant that lets the error of axios escape
safeRequestRaising(resp) ==
  IF resp.status >= 200 /\ resp.status < 300
  THEN [kind |-> "return", data |-> Val(resp.jobs)]
  ELSE [kind |-> "throw", message |-> "request failed"]

\* safeRequest of src/index.js: response.data, and null for whatever axios
\* throws (axios accepts every 2xx status by default)
safeRequest(resp) ==
  IF resp.status >= 200 /\ resp.status < 300
  THEN [kind |-> "return", data |-> Val(resp.jobs)]
  ELSE [kind |-> "return", data |-> Null]

\* a variant that stops only beyond the limit
LimitReachedStrict(limit, n) == limit # 0 /\ n > limit

\* this.limit && allJobs.length >= this.limit
LimitReached(limit, n) == limit # 0 /\ n >= limit

\* a variant that never gives up
OnBatchErrorForever(consecutiveErrors) == "backoff"

\* a variant that stops one failure late
OnBatchErrorLate(consecutiveErrors) ==
  IF consecutiveErrors > MAX_CONSECUTIVE_ERRORS THEN "break" ELSE "backoff"

\* a variant that rethrows the last error when the cap is reached
OnBatchErrorRethrow(consecutiveErrors) ==
  IF consecutiveErrors >= MAX_CONSECUTIVE_ERRORS THEN "throw" ELSE "backoff"

\* the catch of the loop of getJobs, given the incremented counter
OnBatchError(consecutiveErrors) ==
  IF consecutiveErrors >= MAX_CONSECUTIVE_ERRORS THEN "break" ELSE "backoff"

\* one pass of the try of the loop of getJobs, from the settling of
\* fetchJobBatch to the next await or to the end of the loop
GetJobsResume(c, limit, out) ==
  IF out.kind = "throw"
  THEN LET n == c.consecutiveErrors + 1
       IN [crawl |-> [c EXCEPT !.consecutiveErrors = n], next |-> OnBatchError(n)]
  ELSE IF Len(out.jobs) = 0
  THEN [crawl |-> c, next |-> "break"]
  ELSE LET all == c.allJobs \o out.jobs
       IN IF LimitReached(limit, Len(all))
          THEN [crawl |-> [c EXCEPT !.allJobs = Slice(all, limit)], next |-> "break"]
          ELSE [crawl |-> [c EXCEPT !.allJobs = all,
                                    !.consecutiveErrors = 0,
                                    !.start = @ + BATCH_SIZE],
                next |-> "delay"]

\* a variant that does not test the length of the parsed page
FetchLinkedInJobsResumeNoEmptyTest(c, out) ==
  IF out.kind = "throw"
  THEN [crawl |-> [c EXCEPT !.attempts = @ + 1], next |-> "backoff"]
  ELSE IF out.data.isNull
  THEN [crawl |-> c, next |-> "break"]
  ELSE [crawl |-> [c EXCEPT !.allJobs = @ \o out.data.list,
                            !.start = @ + BATCH_SIZE,
                            !.attempts = 0],
        next |-> "delay"]

\* one pass of the try of the loop of fetchLinkedInJobs, from the settling
\* of safeRequest to the next await or to the end of the loop
FetchLinkedInJobsResume(c, out) ==
  IF out.kind = "throw"
  THEN [crawl |-> [c EXCEPT !.attempts = @ + 1], next |-> "backoff"]
  ELSE IF out.data.isNull
  THEN [crawl |-> c, next |-> "break"]
  ELSE IF Len(out.data.list) = 0
  THEN [crawl |-> c, next |-> "break"]
  ELSE [crawl |-> [c EXCEPT !.allJobs = @ \o out.data.list,
                            !.start = @ + BATCH_SIZE,
                            !.attempts = 0],
        next |-> "delay"]

\* the local variables at the start of a crawl (jobs of fetchLinkedInJobs is
\* allJobs here)
NewCrawl ==
  IF pipeline = "simple"
  THEN [allJobs |-> <<>>, start |-> 0, attempts |-> 0]
  ELSE [allJobs |-> <<>>, start |-> 0, consecutiveErrors |-> 0]

NoResult == [kind |-> "none", jobs |-> <<>>, fromCache |-> FALSE]

Queries ==
  IF pipeline = "simple"
  THEN {Query(PlainSearch(k, 0, 0)) : k \in Keywords}
  ELSE {Query(PlainSearch(k, l, 0)) : k \in Keywords, l \in 0..MaxLimit}

InitCrawl ==
  /\ pc = [p \in Procs |-> "idle"]
  /\ query = [p \in Procs |-> Query(PlainSearch("k1", 0, 0))]
  /\ crawl = [p \in Procs |-> NewCrawl]
  /\ log = [p \in Procs |-> <<>>]
  /\ req = [p \in Procs |-> [op |-> 0, at |-> 0]]
  /\ result = [p \in Procs |-> NoResult]
  /\ nFetches = 0
  /\ nRequests = 0

\* GET /jobs of src/index.js up to its first await, and Query.getJobs up to
\* its first await: the cache is asked; a hit is returned; a miss starts the
\* loop, which fetches at once (getJobs) or after the delay of safeRequest
Start(p, q, budget) ==
  /\ pc[p] \in {"idle", "done"}
  /\ nRequests' = nRequests + 1
  /\ nOps' = nOps + 1
  /\ query' = [query EXCEPT ![p] = q]
  /\ req' = [req EXCEPT ![p] = [op |-> nOps + 1, at |-> now]]
  /\ log' = [log EXCEPT ![p] = <<>>]
  /\ crawl' = [crawl EXCEPT ![p] = NewCrawl]
  /\ LET cached == JobCacheGetValue(cache, CacheKey(q), now)
     IN /\ cache' = JobCacheGetCache(cache, CacheKey(q), now)
        /\ IF ~cached.isNull
           THEN /\ pc' = [pc EXCEPT ![p] = "done"]
                /\ result' = [result EXCEPT ![p] =
                     [kind |-> "returned", jobs |-> cached.list, fromCache |-> TRUE]]
                /\ UNCHANGED nFetches
           ELSE /\ result' = [result EXCEPT ![p] = NoResult]
                /\ IF pipeline = "simple"
                   THEN pc' = [pc EXCEPT ![p] = "delay"] /\ UNCHANGED nFetches
                   ELSE /\ nFetches < budget
                        /\ nFetches' = nFetches + 1
                        /\ pc' = [pc EXCEPT ![p] = "fetching"]
  /\ UNCHANGED <<pipeline, now, ticks, written, lastGet, lastClear, parseVars, built>>

\* the end of a request: what follows the loop, as one step (nothing is
\* awaited between the end of the loop and the return but the settling of
\* promises that are settled already)
Finish(p, c, how) ==
  /\ pc' = [pc EXCEPT ![p] = "done"]
  /\ IF how = "throw"
     THEN /\ result' = [result EXCEPT ![p] =
               [kind |-> "threw", jobs |-> <<>>, fromCache |-> FALSE]]
          /\ UNCHANGED <<cache, written, nOps>>
     ELSE /\ result' = [result EXCEPT ![p] =
               [kind |-> "returned", jobs |-> c.allJobs, fromCache |-> FALSE]]
          /\ IF pipeline = "simple" \/ Len(c.allJobs) > 0
             THEN /\ cache' = JobCacheSet(cache, CacheKey(query[p]), Val(c.allJobs), now)
                  /\ written' = MapSet(written, CacheKey(query[p]),
                                  [data |-> Val(c.allJobs), op |-> nOps + 1, at |-> now, by |-> p,
                                   limit |-> query[p].limit])
                  /\ nOps' = nOps + 1
             ELSE UNCHANGED <<cache, written, nOps>>

\* the URL that the crawl in slot p requests next
RequestUrl(p) ==
  IF pipeline = "simple"
  THEN SimpleUrl(query[p].keyword, query[p].location, crawl[p].start)
  ELSE url(query[p], crawl[p].start)

\* the loop of the crawl in slot p takes the outcome of a page fetch and
\* runs on to its next await or to its end
Resume(p, answered, jobs, out) ==
  LET step == IF pipeline = "simple"
              THEN FetchLinkedInJobsResume(crawl[p], out)
              ELSE GetJobsResume(crawl[p], query[p].limit, out)
  IN /\ log' = [log EXCEPT ![p] = Append(@, [start |-> ParamValue(RequestUrl(p), "start"),
                                             answered |-> answered,
                                             jobs |-> jobs,
                                             out |-> out])]
     /\ crawl' = [crawl EXCEPT ![p] = step.crawl]
     /\ IF step.next \in {"delay", "backoff"}
        THEN /\ pc' = [pc EXCEPT ![p] = step.next]
             /\ UNCHANGED <<cache, written, nOps, result>>
        ELSE Finish(p, step.crawl, step.next)

\* a page fetch settles, and the loop runs on to its next await or to its end
FetchReturns(p) ==
  /\ pc[p] = "fetching"
  /\ \E resp \in Responses(ParamValue(RequestUrl(p), "start")) :
       Resume(p, resp.status = 200,
              IF resp.status = 200 THEN resp.jobs ELSE <<>>,
              IF pipeline = "simple" THEN safeRequest(resp) ELSE fetchJobBatch(resp))
  /\ UNCHANGED <<pipeline, now, ticks, lastGet, lastClear, query, req, nFetches, nRequests, parseVars, built>>

\* a delay ends. getJobs: the delay between pages or the backoff, then the
\* next fetchJobBatch. fetchLinkedInJobs: the delay of safeRequest, then its
\* axios.get; or the sleep of the catch, then the test of the loop
TimerFires(p, budget) ==
  /\ pc[p] \in {"delay", "backoff"}
  /\ IF pipeline = "simple" /\ pc[p] = "backoff"
     THEN IF crawl[p].attempts < MAX_ATTEMPTS
          THEN /\ pc' = [pc EXCEPT ![p] = "delay"]
               /\ UNCHANGED <<cache, written, nOps, result, nFetches>>
          ELSE Finish(p, crawl[p], "break") /\ UNCHANGED nFetches
     ELSE /\ nFetches < budget
          /\ nFetches' = nFetches + 1
          /\ pc' = [pc EXCEPT ![p] = "fetching"]
          /\ UNCHANGED <<cache, written, nOps, result>>
  /\ UNCHANGED <<pipeline, now, ticks, lastGet, lastClear, query, crawl, log, req, nRequests, parseVars, built>>

\* time passes between two requests. The clock is read by cache.get when a
\* request begins and by cache.set when it ends, so the time that passes
\* during a crawl only moves the timestamp of its store: for requests that
\* follow one another every pattern of elapsed times between a store and a
\* later get arises from time that passes between the requests.
CrawlTick ==
  /\ \A p \in Sequential : pc[p] \in {"idle", "done"}
  /\ Tick
  /\ UNCHANGED <<pipeline, cache, written, lastGet, lastClear, nOps, crawlVars, parseVars, built>>

(* ================= the listing parsers and the enricher =============== *)
RECURSIVE TrimStart(_)
TrimStart(s) == IF s # <<>> /\ IsSpace(Head(s)) THEN TrimStart(Tail(s)) ELSE s

RECURSIVE TrimEnd(_)
TrimEnd(s) ==
  IF s # <<>> /\ IsSpace(s[Len(s)]) THEN TrimEnd(SubSeq(s, 1, Len(s) - 1)) ELSE s

\* String.prototype.trim
Trim(s) == TrimEnd(TrimStart(s))

RECURSIVE CollapseSpaces(_)
\* .replace(/\s+/g, " ")
CollapseSpaces(s) ==
  IF Len(s) < 2 THEN s
  ELSE IF IsSpace(s[1]) /\ IsSpace(s[2]) THEN CollapseSpaces(Tail(s))
  ELSE <<s[1]>> \o CollapseSpaces(Tail(s))

\* the texts a listing item may hold where a selector looks
TitleTexts == {Empty, <<" ">>, <<" ", "D", " ">>}
SubtitleTexts == {Empty, <<" ">>, <<"A">>}
HrefAttrs == {Undefined, <<"u">>}

\* the <li> elements of a listing page, by what each selector finds in them
Items ==
  {[title |-> t, subtitle |-> c, href |-> h,
    location |-> <<"N", " ">>, datetime |-> Undefined,
    salaryInfo |-> <<"1", " ", " ", "k">>, logo |-> <<"l">>,
    listdate |-> Empty, snippet |-> <<" ", "s">>] :
      t \in TitleTexts, c \in SubtitleTexts, h \in HrefAttrs}

ListingPages == UNION {[1..n -> Items] : n \in 0..MaxItems}

\* what the job board may answer to the request of a detail page: no answer,
\* HTTP 429, or a page, given by the texts under '.description__text
\* .show-more-less-html' and under '.show-more-less-html__markup'
DetailResponses ==
  {[status |-> 0, primary |-> Empty, secondary |-> Empty],
   [status |-> 429, primary |-> Empty, secondary |-> Empty],
   [status |-> 200, primary |-> <<" ", "p">>, secondary |-> <<"s">>],
   [status |-> 200, primary |-> <<" ">>, secondary |-> <<"s", " ">>],
   [status |-> 200, primary |-> Empty, secondary |-> <<" ">>]}

NoResponse == [status |-> -1, primary |-> Empty, secondary |-> Empty]
NotCalled == [kind |-> "none", value |-> Empty]

\* a variant that lets the error of axios escape
fetchJobDescriptionRaising(resp) ==
  IF resp.status >= 200 /\ resp.status < 300
  THEN LET first == Trim(resp.primary)
           description == IF Falsy(first) THEN Trim(resp.secondary) ELSE first
       IN [kind |-> "return", value |-> OrElse(description, DescriptionNotAvailable)]
  ELSE [kind |-> "throw", value |-> Empty]

\* a variant without the fallback to the sentinel
fetchJobDescriptionNoSentinel(resp) ==
  IF resp.status >= 200 /\ resp.status < 300
  THEN LET first == Trim(resp.primary)
           description == IF Falsy(first) THEN Trim(resp.secondary) ELSE first
       IN [kind |-> "return", value |-> description]
  ELSE [kind |-> "return", value |-> DescriptionNotAvailable]

\* fetchJobDescription, from the answer to its axios.get on
fetchJobDescription(resp) ==
  IF resp.status >= 200 /\ resp.status < 300
  THEN LET first == Trim(resp.primary)
           description == IF Falsy(first) THEN Trim(resp.secondary) ELSE first
       IN [kind |-> "return", value |-> OrElse(description, DescriptionNotAvailable)]
  ELSE [kind |-> "return", value |-> DescriptionNotAvailable]

\* the callback of $("li").map in parseJobList of src/index.js
SimpleMapItem(item) ==
  Val([position |-> Trim(item.title),
       company |-> Trim(item.subtitle),
       location |-> Trim(item.location),
       date |-> OrElse(item.datetime, Empty),
       salary |-> OrElse(CollapseSpaces(Trim(item.salaryInfo)), NotSpecified),
       jobUrl |-> OrElse(item.href, Empty),
       companyLogo |-> OrElse(item.logo, Empty),
       agoTime |-> OrElse(Trim(item.listdate), Empty),
       description |-> OrElse(Trim(item.snippet), Empty)])

\* if (!position || !company) return null
EnrichedDiscards(position, company) == Falsy(position) \/ Falsy(company)

\* the callback of jobs.map in parseJobList of src/unnamed/part_000, from
\* the description on
EnrichedMapItem(item, description) ==
  IF EnrichedDiscards(Trim(item.title), Trim(item.subtitle)) THEN Null
  ELSE Val([position |-> Trim(item.title),
            company |-> Trim(item.subtitle),
            location |-> Trim(item.location),
            date |-> item.datetime,
            salary |-> OrElse(CollapseSpaces(Trim(item.salaryInfo)), NotSpecified),
            jobUrl |-> OrElse(item.href, Empty),
            companyLogo |-> OrElse(item.logo, Empty),
            agoTime |-> OrElse(Trim(item.listdate), Empty),
            description |-> OrElse(description, Empty)])

\* the catch of the callback: an item whose description fetch throws is null
EnrichedSettle(item, d) ==
  IF d.kind = "throw" THEN Null ELSE EnrichedMapItem(item, d.value)

RECURSIVE FilterBoolean(_)
\* .filter(Boolean) of a list of records and nulls
FilterBoolean(s) ==
  IF s = <<>> THEN <<>>
  ELSE IF Head(s).isNull THEN FilterBoolean(Tail(s))
  ELSE <<Head(s).list>> \o FilterBoolean(Tail(s))

InitNoPage ==
  /\ page = <<>>
  /\ pstate = "unused"
  /\ mapped = <<>>
  /\ detail = <<>>
  /\ desc = <<>>
  /\ parsed = Null
  /\ order = <<>>

InitPage ==
  /\ page \in ListingPages
  /\ pstate = "idle"
  /\ mapped = [i \in 1..Len(page) |-> [state |-> "new", value |-> Null]]
  /\ detail = [i \in 1..Len(page) |-> NoResponse]
  /\ desc = [i \in 1..Len(page) |-> NotCalled]
  /\ parsed = Null
  /\ order = <<>>

Settled(v) == [state |-> "settled", value |-> v]

\* a variant that is content with one settled callback
AllSettledAny(m) == m = <<>> \/ \E i \in 1..Len(m) : m[i].state = "settled"

AllSettled(m) == \A i \in 1..Len(m) : m[i].state = "settled"

\* a variant that gives the records in the order in which the description
\* fetches settled (the items that are still to settle come last)
JoinedAsSettled(m) ==
  LET rest == SelectSeq([k \in 1..Len(m) |-> k],
                        LAMBDA x : \A n \in 1..Len(order) : order[n] # x)
      ord == order \o rest
  IN Val(FilterBoolean([k \in 1..Len(m) |-> m[ord[k]].value]))

\* what Promise.all(...).filter(Boolean) gives once every callback has ended
Joined(m) == Val(FilterBoolean([i \in 1..Len(m) |-> m[i].value]))

\* the callbacks of the items of a page, each run to its first await.
\* src/index.js: the callback ends. part_000: the callback of an item with a
\* jobUrl stops at the delay of fetchJobDescription, that of an item without
\* one ends.
ParseStart(pg) ==
  [i \in 1..Len(pg) |->
     IF pipeline = "simple" THEN Settled(SimpleMapItem(pg[i]))
     ELSE IF Falsy(pg[i].href) THEN Settled(EnrichedMapItem(pg[i], Empty))
     ELSE [state |-> "delay", value |-> Null]]

\* the call of parseJobList. src/index.js: the whole function. part_000: up
\* to the await of Promise.all
ParseJobList ==
  /\ pstate = "idle"
  /\ LET m == ParseStart(page)
     IN /\ mapped' = m
        /\ IF AllSettled(m)
           THEN pstate' = "done" /\ parsed' = Joined(m)
           ELSE pstate' = "awaiting" /\ UNCHANGED parsed
  /\ UNCHANGED <<page, detail, desc, order>>

\* the delay of fetchJobDescription ends and its axios.get is sent
DescDelayFires(i) ==
  /\ pstate = "awaiting"
  /\ mapped[i].state = "delay"
  /\ mapped' = [mapped EXCEPT ![i] = [state |-> "fetching", value |-> Null]]
  /\ UNCHANGED <<page, pstate, detail, desc, parsed, order>>

\* the axios.get of a description settles: fetchJobDescription returns, the
\* callback of the item ends, and Promise.all resolves if it was the last
DescFetchReturns(i) ==
  /\ pstate = "awaiting"
  /\ mapped[i].state = "fetching"
  /\ \E resp \in DetailResponses :
       LET d == fetchJobDescription(resp)
           m == [mapped EXCEPT ![i] = Settled(EnrichedSettle(page[i], d))]
       IN /\ detail' = [detail EXCEPT ![i] = resp]
          /\ desc' = [desc EXCEPT ![i] = d]
          /\ mapped' = m
          /\ IF AllSettled(m)
             THEN pstate' = "done" /\ parsed' = Joined(m)
             ELSE UNCHANGED <<pstate, parsed>>
  /\ order' = Append(order, i)
  /\ UNCHANGED page

vars == <<pipeline, now, ticks, cache, written, lastGet, lastClear, nOps, crawlVars, parseVars, built>>

Init == InitEnv /\ InitCacheProbe /\ InitCrawl /\ InitNoPage /\ InitNoUrl

\* Spec: a server that answers requests one after the other, the clock
\* advancing between them. The two keywords are interchangeable, so the first
\* request asks for "k1".
Request(p, q) ==
  /\ nRequests < MaxRequests
  /\ nRequests = 0 => q.keyword = "k1"
  /\ Start(p, q, MaxServeFetches)

Next ==
  \/ \E p \in Sequential : \E q \in Queries : Request(p, q)
  \/ \E p \in Sequential : FetchReturns(p)
  \/ \E p \in Sequential : TimerFires(p, MaxServeFetches)
  \/ CrawlTick

Spec == Init /\ [][Next]_vars

\* SpecCrawl: one request, whose crawl starts from an empty cache
FirstRequest(p, q) ==
  /\ nRequests = 0
  /\ q.keyword = "k1"
  /\ Start(p, q, MaxFetches)

NextCrawl ==
  \/ \E p \in Sequential : \E q \in Queries : FirstRequest(p, q)
  \/ \E p \in Sequential : FetchReturns(p)
  \/ \E p \in Sequential : TimerFires(p, MaxFetches)

SpecCrawl == Init /\ [][NextCrawl]_vars

NextCache ==
  \/ \E key \in Keys, value \in CacheData : DoSet(key, value)
  \/ \E key \in Keys : DoGet(key)
  \/ DoClear
  \/ CacheTick

SpecCache == Init /\ [][NextCache]_vars


\* SpecParse: parseJobList of the running program on one listing page
InitParse == InitEnv /\ InitCacheProbe /\ InitCrawl /\ InitPage /\ InitNoUrl

ParseUnchanged == UNCHANGED <<pipeline, now, ticks, cache, written, lastGet, lastClear, nOps, crawlVars, built>>

NextParse ==
  \/ ParseJobList /\ ParseUnchanged
  \/ \E i \in 1..Len(page) : DescDelayFires(i) /\ ParseUnchanged
  \/ \E i \in 1..Len(page) : DescFetchReturns(i) /\ ParseUnchanged

SpecParse == InitParse /\ [][NextParse]_vars

\* SpecPaged: one call of Query.getJobs, for any page number
PagedQueries ==
  {Query(PlainSearch("k1", l, pg)) : l \in 0..MaxLimit, pg \in 0..MaxPage}

PagedRequest(p, q) ==
  /\ nRequests = 0
  /\ Start(p, q, MaxFetches)

NextPaged ==
  \/ \E p \in Sequential : \E q \in PagedQueries : PagedRequest(p, q)
  \/ \E p \in Sequential : FetchReturns(p)
  \/ \E p \in Sequential : TimerFires(p, MaxFetches)

InitPaged == Init /\ pipeline = "batch"

SpecPaged == InitPaged /\ [][NextPaged]_vars

\* SpecLimited: one call of Query.getJobs with a limit L > 0. Every fetch
\* settles (axios.get has a timeout) and every timer fires. The call is
\* allowed one page fetch more than the 3 per record that the limit admits.
LimitedQueries == {Query(PlainSearch("k1", l, 0)) : l \in 1..MaxLimit}

LimitedFetches == MAX_CONSECUTIVE_ERRORS * MaxLimit + 1

LimitedRequest(p, q) ==
  /\ nRequests = 0
  /\ Start(p, q, LimitedFetches)

LimitedFetchReturns == \E p \in Sequential : FetchReturns(p)

LimitedTimerFires == \E p \in Sequential : TimerFires(p, LimitedFetches)

NextLimited ==
  \/ \E p \in Sequential : \E q \in LimitedQueries : LimitedRequest(p, q)
  \/ LimitedFetchReturns
  \/ LimitedTimerFires

InitLimited == Init /\ pipeline = "batch"

SpecLimited ==
  /\ InitLimited
  /\ [][NextLimited]_vars
  /\ WF_vars(LimitedFetchReturns)
  /\ WF_vars(LimitedTimerFires)

\* SpecEnriched: one call of Query.getJobs with what fetchJobBatch awaits
\* spelled out: the listing page, then parseJobList and the description
\* fetches of its items. The items of its pages have a title, a company and
\* a link.
EnrichedItems ==
  {it \in Items : it.title = <<" ", "D", " ">> /\ it.subtitle = <<"A">> /\ it.href = <<"u">>}

EnrichedPages == UNION {[1..n -> EnrichedItems] : n \in 0..MaxEnrichedItems}

\* the answers to a description fetch in SpecEnriched: no answer, or a
\* detail page with a description
EnrichedDetailResponses ==
  {r \in DetailResponses : r.status = 0 \/ Trim(r.primary) # Empty}

EnrichedRequest(p, q) ==
  /\ nRequests = 0
  /\ Start(p, q, MaxEnrichedFetches)

\* axios.get of fetchJobBatch is answered with a listing page: parseJobList
\* starts the callbacks of its items and awaits them; when none of them has
\* anything to await, the loop of getJobs goes on at once
PageArrives(p) ==
  /\ pc[p] = "fetching"
  /\ \E pg \in EnrichedPages :
       LET m == ParseStart(pg)
       IN /\ page' = pg
          /\ mapped' = m
          /\ detail' = [i \in 1..Len(pg) |-> NoResponse]
          /\ desc' = [i \in 1..Len(pg) |-> NotCalled]
          /\ order' = <<>>
          /\ IF AllSettled(m)
             THEN /\ pstate' = "done"
                  /\ parsed' = Joined(m)
                  /\ Resume(p, TRUE, Joined(m).list,
                            fetchJobBatch([status |-> 200, jobs |-> Joined(m).list]))
             ELSE /\ pstate' = "awaiting"
                  /\ parsed' = Null
                  /\ pc' = [pc EXCEPT ![p] = "parsing"]
                  /\ UNCHANGED <<crawl, log, result, cache, written, nOps>>
  /\ UNCHANGED <<pipeline, now, ticks, lastGet, lastClear, query, req, nFetches, nRequests, built>>

\* axios.get of fetchJobBatch fails
PageFails(p) ==
  /\ pc[p] = "fetching"
  /\ \E resp \in FailedResponses : Resume(p, FALSE, <<>>, fetchJobBatch(resp))
  /\ UNCHANGED <<pipeline, now, ticks, lastGet, lastClear, query, req, nFetches, nRequests, parseVars, built>>

\* the delay of a description fetch of the page of the crawl ends
PageDescDelayFires(p, i) ==
  /\ pc[p] = "parsing"
  /\ DescDelayFires(i)
  /\ ParseUnchanged

\* a description fetch of the page of the crawl settles; when it is the last
\* one, Promise.all resolves, fetchJobBatch returns and the loop goes on
PageDescFetchReturns(p, i) ==
  /\ pc[p] = "parsing"
  /\ DescFetchReturns(i)
  /\ detail'[i] \in EnrichedDetailResponses
  /\ IF pstate' = "done"
     THEN Resume(p, TRUE, parsed'.list,
                 fetchJobBatch([status |-> 200, jobs |-> parsed'.list]))
     ELSE UNCHANGED <<pc, crawl, log, result, cache, written, nOps>>
  /\ UNCHANGED <<pipeline, now, ticks, lastGet, lastClear, query, req, nFetches, nRequests, built>>

NextEnriched ==
  \/ \E p \in Sequential : EnrichedRequest(p, Query(PlainSearch("k1", 0, 0)))
  \/ \E p \in Sequential : PageArrives(p)
  \/ \E p \in Sequential : PageFails(p)
  \/ \E p \in Sequential : \E i \in 1..Len(page) : PageDescDelayFires(p, i)
  \/ \E p \in Sequential : \E i \in 1..Len(page) : PageDescFetchReturns(p, i)
  \/ \E p \in Sequential : TimerFires(p, MaxEnrichedFetches)

InitEnriched == Init /\ pipeline = "batch"

SpecEnriched == InitEnriched /\ [][NextEnriched]_vars

\* SpecConcurrent: the server receives a request for "k1" on each of its
\* slots, the second possibly while the crawl of the first is under way; the
\* steps of the two crawls interleave at their awaits
ConcurrentRequest(p, q) ==
  /\ pc[p] = "idle"
  /\ q.keyword = "k1"
  /\ Start(p, q, MaxConcurrentFetches)

NextConcurrent ==
  \/ \E p \in Procs : \E q \in Queries : ConcurrentRequest(p, q)
  \/ \E p \in Procs : FetchReturns(p)
  \/ \E p \in Procs : TimerFires(p, MaxConcurrentFetches)

SpecConcurrent == Init /\ [][NextConcurrent]_vars

\* SpecUrl: one Query is built from a search specification and asked for the
\* URL of a page
NextUrl ==
  \E G \in SUBSET FilterNames :
    /\ built = NotBuilt
    /\ Cardinality(G) <= MaxFilters
    /\ \E g \in GivenFilters(G), sortBy \in {"", "recent", "relevant"}, start \in {0, BATCH_SIZE} :
         BuildUrl(Search(g, sortBy), start)

InitUrl == Init /\ pipeline = "batch"

SpecUrl == InitUrl /\ [][NextUrl]_vars

(* ===================== the claims about the crawl ===================== *)
RECURSIVE Records(_)
\* the records of the pages of a log of fetches, in fetch order
Records(lg) == IF lg = <<>> THEN <<>> ELSE Records(SubSeq(lg, 1, Len(lg) - 1)) \o lg[Len(lg)].jobs

Prefix(lg, k) == SubSeq(lg, 1, k)

\* a fetch that the job board answered with a page of no records
EmptyPage(e) == e.answered /\ Len(e.jobs) = 0

RECURSIVE TrailingFails(_)
\* the number of failed fetches at the end of a log
TrailingFails(lg) ==
  IF lg = <<>> \/ lg[Len(lg)].answered THEN 0
  ELSE 1 + TrailingFails(SubSeq(lg, 1, Len(lg) - 1))

\* C1: in both pipelines (limit = 0), the crawl stops at the first page that
\* parses to zero records: that page is the last fetch of the crawl, and the
\* crawl returns the records of all earlier pages, in fetch order.
C1_StopsAtEmptyPage ==
  \A p \in Sequential :
    query[p].limit = 0 =>
      \A k \in 1..Len(log[p]) :
        EmptyPage(log[p][k]) =>
          /\ k = Len(log[p])
          /\ pc[p] = "done"
          /\ result[p].kind = "returned"
          /\ result[p].jobs = Records(Prefix(log[p], k - 1))

\* pages of MaxPageLen, MaxPageLen and 0 records: three fetches, and the
\* records of the first two pages returned
C1_Witness ==
  \E p \in Sequential :
    /\ query[p].limit = 0
    /\ Len(log[p]) = 3
    /\ Len(log[p][1].jobs) = MaxPageLen /\ Len(log[p][2].jobs) = MaxPageLen
    /\ EmptyPage(log[p][3])
    /\ pc[p] = "done"
    /\ Len(result[p].jobs) = 2 * MaxPageLen

\* C2: in Query.getJobs with limit L > 0 and an empty cache, as soon as the
\* accumulated count reaches L the crawl has stopped and returned exactly the
\* first L accumulated records; in every other case the returned list has
\* fewer than L records.
C2_LimitTruncates ==
  \A p \in Sequential :
    (pipeline = "batch" /\ query[p].limit > 0) =>
      LET L == query[p].limit
          acc == Records(log[p])
      IN /\ pc[p] # "done" => Len(acc) < L
         /\ pc[p] = "done" =>
              IF Len(acc) >= L
              THEN result[p].jobs = Slice(acc, L) /\ Len(result[p].jobs) = L
              ELSE Len(result[p].jobs) < L

\* a page that takes the accumulated count beyond the limit
C2_Witness ==
  \E p \in Sequential :
    /\ pipeline = "batch"
    /\ query[p].limit > 0
    /\ pc[p] = "done"
    /\ Len(Records(log[p])) > query[p].limit
    /\ Len(result[p].jobs) = query[p].limit

\* C3: Query.getJobs stops because of failures exactly when 3 fetches in a
\* row have failed, and then returns every record accumulated before them; a
\* successful non-empty page resets the counter of consecutive failures.
C3_ThreeConsecutiveFailures ==
  \A p \in Sequential :
    pipeline = "batch" =>
      LET fails == TrailingFails(log[p])
      IN /\ fails <= 3
         /\ fails = 3 =>
              /\ pc[p] = "done"
              /\ result[p].kind = "returned"
              /\ result[p].jobs = Records(log[p])
         /\ (fails > 0 /\ fails < 3) => pc[p] \in {"backoff", "fetching"}
         /\ pc[p] # "done" => crawl[p].consecutiveErrors = fails

\* fail, fail, success, fail, fail: the crawl has not stopped
C3_Witness ==
  \E p \in Sequential :
    /\ pipeline = "batch"
    /\ Len(log[p]) = 5
    /\ ~log[p][1].answered /\ ~log[p][2].answered
    /\ log[p][3].answered /\ Len(log[p][3].jobs) > 0
    /\ ~log[p][4].answered /\ ~log[p][5].answered
    /\ pc[p] = "backoff"

\* C6: Query.getJobs never throws because of a failed page fetch: after
\* every sequence of fetch outcomes it is crawling on or has returned the
\* list accumulated so far, also when the cap of 3 failures is exhausted.
C6_FetchFailureNeverThrown ==
  \A p \in Sequential :
    pipeline = "batch" =>
      /\ result[p].kind # "threw"
      /\ (pc[p] = "done" /\ ~result[p].fromCache) =>
           /\ result[p].kind = "returned"
           /\ result[p].jobs = crawl[p].allJobs

\* the cap is exhausted by failures of which one is an HTTP 429, after a page
\* of records
C6_Witness ==
  \E p \in Sequential :
    /\ pipeline = "batch"
    /\ pc[p] = "done"
    /\ TrailingFails(log[p]) = 3
    /\ \E k \in 1..Len(log[p]) :
         log[p][k].out.kind = "throw" /\ log[p][k].out.message = "Rate limit reached"
    /\ result[p].kind = "returned"
    /\ Len(result[p].jobs) > 0

\* C7: in the simple pipeline safeRequest never raises and yields null for
\* every failed request; on a null result fetchLinkedInJobs stops at once,
\* without retry or backoff, and returns the records of the earlier pages.
C7_NullStopsSimpleCrawl ==
  \A p \in Sequential :
    pipeline = "simple" =>
      /\ pc[p] # "backoff"
      /\ crawl[p].attempts = 0
      /\ \A k \in 1..Len(log[p]) :
           /\ log[p][k].out.kind = "return"
           /\ ~log[p][k].answered => log[p][k].out.data = Null
           /\ (log[p][k].out.kind = "return" /\ log[p][k].out.data = Null) =>
                /\ k = Len(log[p])
                /\ pc[p] = "done"
                /\ result[p].kind = "returned"
                /\ result[p].jobs = Records(Prefix(log[p], k - 1))

\* a page of records, then a failed request
C7_Witness ==
  \E p \in Sequential :
    /\ pipeline = "simple"
    /\ Len(log[p]) = 2
    /\ log[p][1].answered /\ Len(log[p][1].jobs) > 0
    /\ ~log[p][2].answered
    /\ pc[p] = "done"
    /\ result[p].jobs = log[p][1].jobs

\* the request in slot p began after the last store under its cache key
AfterStore(p) ==
  /\ pc[p] # "idle"
  /\ CacheKey(query[p]) \in DOMAIN written
  /\ req[p].op > written[CacheKey(query[p])].op

SinceStore(p) == req[p].at - written[CacheKey(query[p])].at

Blank(t) == \A k \in 1..Len(t) : IsSpace(t[k])

\* v is t without the white space around it
Stripped(v, t) ==
  IF Blank(t) THEN v = Empty
  ELSE /\ v # Empty /\ ~IsSpace(v[1]) /\ ~IsSpace(v[Len(v)])
       /\ \E i \in 0..Len(t) :
            /\ i + Len(v) <= Len(t)
            /\ SubSeq(t, i + 1, i + Len(v)) = v
            /\ Blank(SubSeq(t, 1, i))
            /\ Blank(SubSeq(t, i + Len(v) + 1, Len(t)))

\* C5: parseJobList, fast and enriched, leaves an item out of its result if
\* and only if both its position and its company are empty.
C5_DiscardedIffBothEmpty ==
  pstate = "done" =>
    \A i \in 1..Len(page) :
      mapped[i].value = Null <=> (Blank(page[i].title) /\ Blank(page[i].subtitle))

\* C8: fetchJobDescription never throws and never returns an empty string:
\* the sentinel when the fetch fails and when both selectors yield empty
\* text, else the text of the primary selector, or of the secondary one when
\* the primary is empty.
C8_DescriptionOrSentinel ==
  \A i \in 1..Len(page) :
    desc[i].kind # "none" =>
      LET r == detail[i]
          v == desc[i].value
      IN /\ desc[i].kind = "return"
         /\ v # Empty
         /\ r.status # 200 => v = DescriptionNotAvailable
         /\ (r.status = 200 /\ Blank(r.primary) /\ Blank(r.secondary)) =>
              v = DescriptionNotAvailable
         /\ (r.status = 200 /\ ~Blank(r.primary)) => Stripped(v, r.primary)
         /\ (r.status = 200 /\ Blank(r.primary) /\ ~Blank(r.secondary)) =>
              Stripped(v, r.secondary)

\* one description fetch failed, another found only the secondary text
C8_Witness ==
  \E i, j \in 1..Len(page) :
    /\ desc[i].kind = "return" /\ detail[i].status = 0
    /\ desc[i].value = DescriptionNotAvailable
    /\ desc[j].kind = "return" /\ detail[j].status = 200
    /\ Blank(detail[j].primary) /\ desc[j].value = <<"s">>

\* the rule of the enriched parser: position and company both non-empty
PassesRule(item) == ~Blank(item.title) /\ ~Blank(item.subtitle)

\* the fields a record has besides its description
SameButDescription(r, s) ==
  /\ r.position = s.position /\ r.company = s.company
  /\ r.location = s.location /\ r.date = s.date
  /\ r.salary = s.salary /\ r.jobUrl = s.jobUrl
  /\ r.companyLogo = s.companyLogo /\ r.agoTime = s.agoTime

\* C9: in the enriched parseJobList, whichever description fetches fail, the
\* page yields one record for every item that passes the position/company
\* rule, with the fields other than description as when no fetch fails, and
\* the description of every item whose own fetch succeeded as that fetch
\* alone gives it.
C9_EnrichmentFailuresIndependent ==
  (pipeline = "batch" /\ pstate = "done") =>
    /\ parsed = Joined(mapped)
    /\ Len(parsed.list) = Cardinality({i \in 1..Len(page) : PassesRule(page[i])})
    /\ \A i \in 1..Len(page) :
         PassesRule(page[i]) =>
           /\ ~mapped[i].value.isNull
           /\ SameButDescription(mapped[i].value.list,
                                 EnrichedMapItem(page[i], Empty).list)
           /\ detail[i].status = 200 =>
                mapped[i].value.list.description = fetchJobDescription(detail[i]).value

\* two items pass the rule; the description fetch of the first failed and
\* that of the second succeeded
C9_Witness ==
  /\ pipeline = "batch" /\ pstate = "done"
  /\ Len(page) = 2
  /\ PassesRule(page[1]) /\ PassesRule(page[2])
  /\ detail[1].status = 0 /\ detail[2].status = 200
  /\ Len(parsed.list) = 2
  /\ parsed.list[2].description = <<"p">>

(* ------------------------------ C4 ------------------------------------ *)
\* the last get asked for a key after the last set of that key
GetOfWritten ==
  /\ lastGet.key \in DOMAIN written
  /\ lastGet.op > written[lastGet.key].op

\* C4: for both JobCache classes and every key, a get issued after a set with
\* no clock advance returns the data of that set, and a get issued when the
\* TTL has elapsed since the last set of the key (elapsed >= TTL) returns null.
C4_GetAfterSet ==
  GetOfWritten =>
    LET w == written[lastGet.key]
        elapsed == lastGet.at - w.at
    IN /\ (elapsed = 0 => lastGet.value = w.data)
       /\ (elapsed >= TTL => lastGet.value = Null)

(* ------------------------------ C11 ----------------------------------- *)
\* C11: in both pipelines a cache entry is created only by a crawl that
\* gathered records: a crawl whose first page fetch fails, or that gathers no
\* records, stores no entry, and no request is answered from the cache with
\* the empty list of such a crawl.
C11_EntryOnlyAfterRecords ==
  /\ \A k \in DOMAIN cache : Len(cache[k].data.list) > 0
  /\ \A p \in Sequential : result[p].fromCache => Len(result[p].jobs) > 0

(* ------------------------------ C12 ----------------------------------- *)
\* the filter of a table has, in the URL u, the parameter the claim gives it
\* for the value v: none when v is absent or not a listed synonym, the code
\* of the synonym that v is when its case is ignored
FilterAsClaimed(u, name, table, v) ==
  IF toLowerCase(v) \in DOMAIN table
  THEN HasParam(u, name) /\ ParamValue(u, name) = table[toLowerCase(v)]
  ELSE ~HasParam(u, name)

\* C12: Query.url omits the parameter of a filter whose value is empty or
\* not a listed synonym, and emits the table code of a listed synonym,
\* matched without regard to case.
C12_FiltersOmittedOrCoded ==
  built.kind = "url" =>
    LET o == built.queryObj
        u == built.url
    IN /\ FilterAsClaimed(u, "f_TPR", dateRange, o.dateSincePosted)
       /\ FilterAsClaimed(u, "f_SB2", salaryRange, o.salary)
       /\ FilterAsClaimed(u, "f_E", experienceRange, o.experienceLevel)
       /\ FilterAsClaimed(u, "f_WT", remoteFilterRange, o.remoteFilter)
       /\ FilterAsClaimed(u, "f_JT", jobTypeRange, o.jobType)

CrawlResult(p) ==
  IF pipeline = "batch" /\ LimitReached(query[p].limit, Len(Records(log[p])))
  THEN Slice(Records(log[p]), query[p].limit)
  ELSE Records(log[p])

\* the entry of every key is the whole list returned by one finished crawl,
\* the last one that stored, and holds the records of its pages only
EntryOfFinishedCrawl ==
  \A key \in DOMAIN cache :
    /\ key \in DOMAIN written
    /\ LET w == written[key]
       IN /\ cache[key].data = w.data
          /\ w.by \in Procs
          /\ pc[w.by] = "done"
          /\ CacheKey(query[w.by]) = key
          /\ result[w.by].kind = "returned" /\ ~result[w.by].fromCache
          /\ w.data = Val(result[w.by].jobs)
          /\ result[w.by].jobs = CrawlResult(w.by)

\* the cache changes only in the step that ends the loop of a crawl, and
\* then by the store of the list that the crawl returns
StoredAtEndOfCrawl ==
  cache' # cache =>
    \E p \in Procs :
      /\ pc[p] # "done" /\ pc'[p] = "done"
      /\ cache' = MapSet(cache, CacheKey(query[p]),
                         [data |-> Val(result'[p].jobs), timestamp |-> now])

\* C14: under any interleaving of concurrent crawls for one key, the entry
\* of the key is at all times the whole list returned by one finished crawl
\* (the last one that stored); the cache is written once per crawl, when its
\* loop has ended, and an entry is never a merge of two crawls nor a partial
\* list of a crawl under way.
C14_EntryIsOneFinishedCrawl == []EntryOfFinishedCrawl /\ [][StoredAtEndOfCrawl]_vars

\* two crawls for the key ran at the same time and returned different lists;
\* the entry is the list of the one that ended last
C14_Witness ==
  \E p, o \in Procs :
    /\ p # o
    /\ pc[p] = "done" /\ pc[o] = "done"
    /\ ~result[p].fromCache /\ ~result[o].fromCache
    /\ Len(result[p].jobs) > 0 /\ Len(result[o].jobs) > 0
    /\ result[p].jobs # result[o].jobs
    /\ CacheKey(query[p]) \in DOMAIN cache
    /\ written[CacheKey(query[p])].by = p
    /\ cache[CacheKey(query[p])].data = Val(result[p].jobs)

(* ------------------------------ C15 ----------------------------------- *)
\* what a get returns when no clear is ever called: a function of the last
\* set of the key and of the clock alone
GetWithoutClear(key, t) ==
  IF key \notin DOMAIN written THEN Null
  ELSE IF t - written[key].at > TTLBatch THEN Null
  ELSE written[key].data

\* the last get returned what it returns when no clear is called
GetIgnoresClear ==
  (/\ pipeline = "batch"
   /\ lastGet.op > 0
   /\ lastGet.key \notin DOMAIN written \/ lastGet.op > written[lastGet.key].op) =>
    lastGet.value = GetWithoutClear(lastGet.key, lastGet.at)

\* a step of clear removes the entries for which get returns null, and leaves
\* the others as they are
ClearRemovesExpired ==
  lastClear' # lastClear =>
    /\ \A k \in DOMAIN cache :
         k \in DOMAIN cache' <=> ~BatchGetValue(cache, k, now).isNull
    /\ \A k \in DOMAIN cache' : k \in DOMAIN cache /\ cache'[k] = cache[k]

\* C15: in the JobCache of the batch pipeline, clear() removes exactly the
\* entries that get() treats as expired and leaves every other entry
\* unchanged, so that for every sequence of set, get and clock advances each
\* get returns the same value whether or not clear() calls are interleaved.
C15_ClearIsTransparent == []GetIgnoresClear /\ [][ClearRemovesExpired]_vars

\* a clear came between the set of a key and a get of it, at the age of TTL
\* exactly, and the get then returned the data; and a clear that removed the
\* key came between the set and a get, and the get returned null
C15_WitnessKept ==
  /\ pipeline = "batch"
  /\ lastGet.key \in DOMAIN written
  /\ written[lastGet.key].op < lastClear.op /\ lastClear.op < lastGet.op
  /\ lastClear.at - written[lastGet.key].at = TTLBatch
  /\ lastClear.removed = {}
  /\ lastGet.value = written[lastGet.key].data

C15_Witness ==
  /\ pipeline = "batch"
  /\ lastGet.key \in DOMAIN written
  /\ written[lastGet.key].op < lastClear.op /\ lastClear.op < lastGet.op
  /\ lastGet.key \in lastClear.removed
  /\ lastGet.value = Null

(* ------------------------------ C16 ----------------------------------- *)
\* the number of fetches of a log that brought a page with records
NonEmptyPages(lg) == Cardinality({j \in 1..Len(lg) : lg[j].answered /\ Len(lg[j].jobs) > 0})

\* C16: in Query.getJobs the start parameter of every page fetch is 25 x the
\* number of successful non-empty pages fetched before it in the crawl, plus
\* 25 x the page of the query; a fetch that follows a failed fetch requests
\* the offset of the failed one.
C16_StartParameter ==
  \A p \in Sequential :
    pipeline = "batch" =>
      \A k \in 1..Len(log[p]) :
        /\ log[p][k].start = 25 * NonEmptyPages(Prefix(log[p], k - 1)) + 25 * query[p].page
        /\ (k > 1 /\ ~log[p][k - 1].answered) => log[p][k].start = log[p][k - 1].start

\* the second page asked for: a page with records, a failed fetch, and the
\* fetch that follows it
C16_Witness ==
  \E p \in Sequential :
    /\ pipeline = "batch"
    /\ query[p].page = 1
    /\ Len(log[p]) = 3
    /\ log[p][1].answered /\ Len(log[p][1].jobs) > 0
    /\ ~log[p][2].answered
    /\ log[p][1].start = 25 /\ log[p][2].start = 50 /\ log[p][3].start = 50

(* ------------------------------ C17 ----------------------------------- *)
\* description fetches of the page that are on their way
DescriptionsInFlight == {i \in 1..Len(mapped) : mapped[i].state \in {"delay", "fetching"}}

\* page fetches of the crawl in slot p that were issued and whose
\* fetchJobBatch has not settled
PagesInFlight(p) == nFetches - Len(log[p])

\* at most one page fetch is on its way; a page is being parsed only while
\* its fetch is, and description fetches run only then
OnePageAtATime ==
  \A p \in Sequential :
    /\ PagesInFlight(p) \in {0, 1}
    /\ PagesInFlight(p) = 1 <=> pc[p] \in {"fetching", "parsing"}
    /\ pc[p] = "fetching" => DescriptionsInFlight = {}
    /\ DescriptionsInFlight # {} => pc[p] = "parsing"

\* a page fetch is issued when the call begins, or when a delay or a backoff
\* ends after the fetch, the parsing and the description fetches of the page
\* before it have ended
IssuedAfterCompletion ==
  \A p \in Sequential :
    nFetches' # nFetches =>
      /\ nFetches' = nFetches + 1
      /\ PagesInFlight(p) = 0
      /\ DescriptionsInFlight = {}
      /\ pstate \in {"unused", "done"}
      /\ IF Len(log[p]) = 0 THEN pc[p] = "idle"
         ELSE IF log[p][Len(log[p])].answered THEN pc[p] = "delay"
         ELSE pc[p] = "backoff"

\* C17: within one crawl at most one page fetch is in flight at any time:
\* the next page fetch is issued only after the fetch of the page before it,
\* its parsing and all its description fetches have completed, and after the
\* delay between pages or the backoff has elapsed.
C17_OnePageFetchInFlight == []OnePageAtATime /\ [][IssuedAfterCompletion]_vars

\* the second page of a crawl is being fetched, after a first page with
\* MaxEnrichedItems items, whose descriptions were all fetched
C17_Witness ==
  \E p \in Sequential :
    /\ pc[p] = "fetching"
    /\ Len(log[p]) = 1
    /\ log[p][1].answered
    /\ Len(page) = MaxEnrichedItems
    /\ \A i \in 1..Len(page) : desc[i].kind = "return"
    /\ nFetches = 2

(* ------------------------------ C18 ----------------------------------- *)
\* the list stored under a key was cut at the limit of the call that stored it
StoredTruncated(key) ==
  written[key].limit > 0 /\ Len(written[key].data.list) = written[key].limit

\* C18: for every sequence of Query.getJobs calls that share the cache, a
\* call with limit L > 0 returns at most L records, and a list that was cut
\* at the limit of one call is never returned to a call with a larger limit
\* or with limit 0.
C18_LimitAcrossCalls ==
  \A p \in Sequential :
    (pipeline = "batch" /\ pc[p] = "done" /\ result[p].kind = "returned") =>
      /\ query[p].limit > 0 => Len(result[p].jobs) <= query[p].limit
      /\ (result[p].fromCache /\ StoredTruncated(CacheKey(query[p]))) =>
           /\ query[p].limit > 0
           /\ query[p].limit <= written[CacheKey(query[p])].limit

(* ------------------------------ C19 ----------------------------------- *)
\* the call in slot p is in its loop
Crawling(p) == pc[p] \in {"fetching", "delay", "backoff"}

\* the page fetches of a call with limit L are at most 3 x L: at most L pages
\* with records, each after at most 2 failures, or 3 failures in the end
FetchesBounded ==
  \A p \in Sequential :
    query[p].limit > 0 => Len(log[p]) <= 3 * query[p].limit /\ nFetches <= 3 * query[p].limit

\* C19: Query.getJobs with limit L > 0 reaches its end for every sequence of
\* page fetch outcomes (failure, empty page, page with records): the loop
\* does not stay between fetching and backoff forever, and the number of
\* page fetches of the call is bounded by 3 x L.
C19_LimitedCrawlTerminates ==
  /\ []FetchesBounded
  /\ \A p \in Sequential : Crawling(p) ~> pc[p] = "done"

\* a call with the largest limit that ended after 3 x L page fetches
C19_Witness ==
  \E p \in Sequential :
    /\ query[p].limit = MaxLimit
    /\ pc[p] = "done"
    /\ Len(log[p]) = 3 * MaxLimit

(* ------------------------------ C20 ----------------------------------- *)
\* the items of the page that gave a record
Kept == {i \in 1..Len(mapped) : ~mapped[i].value.isNull}

\* the place in the result of the record of a kept item: one more than the
\* number of kept items before it on the page
PlaceOf(i) == Cardinality({j \in Kept : j <= i})

\* C20: in the enriched parseJobList the records returned are in the order
\* of their items on the listing page, for every order in which the
\* description fetches of the page complete or fail.
C20_RecordsInPageOrder ==
  (pipeline = "batch" /\ pstate = "done") =>
    /\ Len(parsed.list) = Cardinality(Kept)
    /\ \A i \in Kept :
         /\ parsed.list[PlaceOf(i)] = mapped[i].value.list
         /\ parsed.list[PlaceOf(i)].jobUrl = OrElse(page[i].href, Empty)
         /\ desc[i].kind = "return" => parsed.list[PlaceOf(i)].description = desc[i].value

\* the description fetch of the second item settled before that of the
\* first, one with a description and one with a failure, and both items gave
\* a record
C20_Witness ==
  /\ pipeline = "batch" /\ pstate = "done"
  /\ Len(page) = 2
  /\ order = <<2, 1>>
  /\ detail[1].status = 200 /\ detail[2].status = 0
  /\ Len(parsed.list) = 2
  /\ parsed.list[1].description = <<"p">>
  /\ parsed.list[2].description = DescriptionNotAvailable

====
